---- MODULE Spec2Model ----
(***************************************************************************)
(* Model of the multi-agent price comparison pipeline of app.py:           *)
(* ScraperAgent (fetch + extraction), AnalyzerAgent (deal classification), *)
(* ReportAgent (sort, summary, display, export) and main.                  *)
(*                                                                         *)
(* Numbers.  Prices are Python floats parsed from decimal text.  They are  *)
(* represented here as integers counting hundredths, and the average,      *)
(* the difference and the percentage are exact rationals [num, den].       *)
(* Binary64 rounding is not represented.                                   *)
(* Texts are sequences of one-character strings.                           *)
(* Clock values (scraped_at, generated_at) are left out of the records.    *)
(***************************************************************************)
EXTENDS Integers, Sequences, FiniteSets, Bags, TLC

VARIABLES pc, outcome, use_mock, urls, web, idx, all_products, scraped_data,
          analyses, report, console, calls, file

vars == <<pc, outcome, use_mock, urls, web, idx, all_products, scraped_data,
          analyses, report, console, calls, file>>

----------------------------------------------------------------------------
(* Bounds of the model *)

MaxSources == 3

MaxCandidates == 2

MaxBatch == 4

(* product_containers[:10] *)
ContainerLimit == 10

(* base_price = 299.99, in hundredths *)
base_price == 29999

----------------------------------------------------------------------------
(* Rational arithmetic: [num, den] with den > 0, in lowest terms *)

Abs(x) == IF x < 0 THEN -x ELSE x

RECURSIVE GCD(_, _)
GCD(a, b) == IF b = 0 THEN a ELSE GCD(b, a % b)

Rat(n, d) ==
    LET s == IF d < 0 THEN -1 ELSE 1
        g == GCD(Abs(n), Abs(d))
    IN  [num |-> (s * n) \div g, den |-> (s * d) \div g]

IntRat(n) == [num |-> n, den |-> 1]

RatSub(a, b) == Rat(a.num * b.den - b.num * a.den, a.den * b.den)

RatDiv(a, b) == Rat(a.num * b.den, a.den * b.num)

RatMul(a, b) == Rat(a.num * b.num, a.den * b.den)

RatLeq(a, b) == a.num * b.den <= b.num * a.den

RatAbs(a) == [num |-> Abs(a.num), den |-> a.den]

----------------------------------------------------------------------------
(* Text helpers *)

DigitChars == <<"0", "1", "2", "3", "4", "5", "6", "7", "8", "9">>

IsDigit(c) == \E k \in 1..10 : DigitChars[k] = c

DigitVal(c) == (CHOOSE k \in 1..10 : DigitChars[k] = c) - 1

(* the character class [\d,] *)
IsDigitOrComma(c) == IsDigit(c) \/ c = ","

Sub(t, a, b) == [k \in 1..(b - a + 1) |-> t[a + k - 1]]

(* str.strip as applied by get_text(strip=True) to a single text node *)
Strip(t) ==
    IF \A k \in 1..Len(t) : t[k] = " " THEN <<>>
    ELSE LET a == CHOOSE k \in 1..Len(t) :
                     t[k] # " " /\ \A j \in 1..(k - 1) : t[j] = " "
             b == CHOOSE k \in 1..Len(t) :
                     t[k] # " " /\ \A j \in (k + 1)..Len(t) : t[j] = " "
         IN  Sub(t, a, b)

(* end of the longest run of digits starting at position a (a-1 if none) *)
DigitRunEnd(t, a) ==
    CHOOSE b \in (a - 1)..Len(t) :
        /\ \A k \in a..b : IsDigit(t[k])
        /\ (b = Len(t) \/ ~IsDigit(t[b + 1]))

(* end of the longest run of [\d,] starting at position a *)
DigitCommaRunEnd(t, a) ==
    CHOOSE b \in (a - 1)..Len(t) :
        /\ \A k \in a..b : IsDigitOrComma(t[k])
        /\ (b = Len(t) \/ ~IsDigitOrComma(t[b + 1]))

(* re.search(r'[\d,]+\.?\d*', t): <<>> when there is no match, else <<group>> *)
price_match(t) ==
    IF \A k \in 1..Len(t) : ~IsDigitOrComma(t[k]) THEN <<>>
    ELSE LET a == CHOOSE k \in 1..Len(t) :
                     IsDigitOrComma(t[k]) /\ \A j \in 1..(k - 1) : ~IsDigitOrComma(t[j])
             b == DigitCommaRunEnd(t, a)
             c == IF b < Len(t) /\ t[b + 1] = "." THEN b + 1 ELSE b
             d == DigitRunEnd(t, c + 1)
         IN  <<Sub(t, a, d)>>

(* str.replace(',', '') *)
IsNotComma(c) == c # ","

RemoveCommas(t) == SelectSeq(t, IsNotComma)

RECURSIVE DigitsToNat(_)
DigitsToNat(t) ==
    IF t = <<>> THEN 0
    ELSE 10 * DigitsToNat(Sub(t, 1, Len(t) - 1)) + DigitVal(t[Len(t)])

(* float(s) for s made of digits with at most one "." : <<>> stands for     *)
(* ValueError (no digit at all), else <<value in hundredths>>.  Texts of    *)
(* the model carry at most two fractional digits.                           *)
ParseFloat(s) ==
    IF \A k \in 1..Len(s) : ~IsDigit(s[k]) THEN <<>>
    ELSE LET dot  == IF \E k \in 1..Len(s) : s[k] = "."
                     THEN CHOOSE k \in 1..Len(s) : s[k] = "." ELSE Len(s) + 1
             ip   == Sub(s, 1, dot - 1)
             fp   == Sub(s, dot + 1, Len(s))
             frac == IF Len(fp) = 0 THEN 0
                     ELSE IF Len(fp) = 1 THEN 10 * DigitVal(fp[1])
                     ELSE 10 * DigitVal(fp[1]) + DigitVal(fp[2])
         IN  <<100 * DigitsToNat(ip) + frac>>

----------------------------------------------------------------------------
(* Data model *)

ProductData(store, product_name, price, url) ==
    [store |-> store, product_name |-> product_name, price |-> price, url |-> url]

DealAnalysis(product, is_good_deal, reasoning, avg_price, price_diff, deal_quality) ==
    [product |-> product, is_good_deal |-> is_good_deal, reasoning |-> reasoning,
     average_price |-> avg_price, price_difference |-> price_diff,
     deal_quality |-> deal_quality]

Report(as, summary) == [analyses |-> as, summary |-> summary]

NoReport == [analyses |-> <<>>, summary |-> <<>>]

----------------------------------------------------------------------------
(* Documents.  A candidate container holds at most one heading (h2-h4), at  *)
(* most one anchor with a title/name class and at most one element with a   *)
(* price class; each is <<>> (absent) or <<text>>.                          *)

Container(heading, anchor, price) ==
    [heading |-> heading, anchor |-> anchor, price |-> price]

TV == <<"T", "V">>

(* " TV " under h3, "$1,299.50" *)
CandValid ==
    Container(<<<<" ", "T", "V", " ">>>>, <<>>,
              <<<<"$", "1", ",", "2", "9", "9", ".", "5", "0">>>>)

(* name only in the anchor, price text "0.00" *)
CandZeroPrice ==
    Container(<<>>, <<TV>>, <<<<"0", ".", "0", "0">>>>)

(* heading holding only whitespace, "$85" *)
CandBlankName ==
    Container(<<<<" ", " ">>>>, <<TV>>, <<<<"$", "8", "5">>>>)

(* no numeric run in the price text *)
CandNoNumber ==
    Container(<<TV>>, <<>>, <<<<"N", "/", "A">>>>)

(* a lone comma: matched by the pattern, rejected by float *)
CandComma ==
    Container(<<TV>>, <<>>, <<<<"$", ",">>>>)

(* no price element *)
CandNoPrice ==
    Container(<<TV>>, <<>>, <<>>)

Candidates == {CandValid, CandZeroPrice}

CandSeqs == UNION {[1..n -> Candidates] : n \in 0..MaxCandidates}

Doc(divs, articles, lis) == [divs |-> divs, articles |-> articles, lis |-> lis]

(* a page with more product divs than the container limit *)
LongDoc == Doc([k \in 1..(ContainerLimit + 1) |->
                   IF k = 2 THEN CandNoPrice ELSE IF k = 3 THEN CandNoNumber
                   ELSE CandValid], <<>>, <<>>)

Docs ==
    {Doc(d, <<CandZeroPrice>>, <<>>) : d \in CandSeqs}
      \cup {Doc(<<>>, <<>>, l) : l \in {<<>>, <<CandComma, CandBlankName>>}}
      \cup {LongDoc}

(* what session.get + raise_for_status yield for a URL *)
Responses ==
    {[status |-> "fetch_error", doc |-> Doc(<<>>, <<>>, <<>>)],
     [status |-> "http_error", doc |-> Doc(<<>>, <<>>, <<>>)]}
      \cup {[status |-> "ok", doc |-> d] : d \in Docs}

Urls == {"https://www.a.com/tv", "https://b.com/tv"}

(* url.split('/')[2].replace('www.', '') *)
StoreName(url) == IF url = "https://www.a.com/tv" THEN "a.com" ELSE "b.com"

----------------------------------------------------------------------------
(* ScraperAgent *)

(* <<>> stands for None, <<p>> for a ProductData *)
extract_product_info(container, store_name, source_url) ==
    LET name_elem  == IF container.heading # <<>> THEN container.heading
                      ELSE container.anchor
        price_elem == container.price
    IN  IF name_elem # <<>> /\ price_elem # <<>>
        THEN LET name       == Strip(name_elem[1])
                 price_text == Strip(price_elem[1])
                 m          == price_match(price_text)
             IN  IF m # <<>>
                 THEN LET price == ParseFloat(RemoveCommas(m[1]))
                      IN  IF price = <<>> THEN <<>>
                          ELSE <<ProductData(store_name, name, price[1], source_url)>>
                 ELSE <<>>
        ELSE <<>>

RECURSIVE ExtractAll(_, _, _)
ExtractAll(containers, store_name, url) ==
    IF containers = <<>> THEN <<>>
    ELSE extract_product_info(Head(containers), store_name, url)
           \o ExtractAll(Tail(containers), store_name, url)

scrape_store(url, response) ==
    IF response.status # "ok" THEN <<>>
    ELSE LET doc == response.doc
             product_containers ==
                 IF doc.divs # <<>> THEN doc.divs
                 ELSE IF doc.articles # <<>> THEN doc.articles
                 ELSE doc.lis
             n == IF Len(product_containers) < ContainerLimit
                  THEN Len(product_containers) ELSE ContainerLimit
         IN  ExtractAll(Sub(product_containers, 1, n), StoreName(url), url)

MockStores == <<"Amazon", "Walmart", "BestBuy", "Target", "eBay">>

(* random.uniform(-50, 50), in hundredths *)
MockVariances == {-5000, 0, 5000}

(* f"https://{store.lower()}.com/product" *)
MockUrls == <<"https://amazon.com/product", "https://walmart.com/product",
              "https://bestbuy.com/product", "https://target.com/product",
              "https://ebay.com/product">>

get_mock_data(product_name, variance) ==
    [k \in 1..Len(MockStores) |->
        ProductData(MockStores[k], product_name, base_price + variance[k],
                    MockUrls[k])]

----------------------------------------------------------------------------
(* AnalyzerAgent *)

RECURSIVE SumPrices(_)
SumPrices(products) ==
    IF products = <<>> THEN 0
    ELSE Head(products).price + SumPrices(Tail(products))

(* the chain written with < instead of <= *)
deal_quality_of_Strict(percent_diff) ==
    IF ~RatLeq(IntRat(-15), percent_diff) THEN "EXCELLENT"
    ELSE IF ~RatLeq(IntRat(-5), percent_diff) THEN "GOOD"
    ELSE IF ~RatLeq(IntRat(5), percent_diff) THEN "AVERAGE"
    ELSE "POOR"

(* the if/elif chain on percent_diff *)
deal_quality_of(percent_diff) ==
    IF RatLeq(percent_diff, IntRat(-15)) THEN "EXCELLENT"
    ELSE IF RatLeq(percent_diff, IntRat(-5)) THEN "GOOD"
    ELSE IF RatLeq(percent_diff, IntRat(5)) THEN "AVERAGE"
    ELSE "POOR"

is_good_deal_of(percent_diff) ==
    IF RatLeq(percent_diff, IntRat(-15)) THEN TRUE
    ELSE IF RatLeq(percent_diff, IntRat(-5)) THEN TRUE
    ELSE IF RatLeq(percent_diff, IntRat(5)) THEN FALSE
    ELSE FALSE

(* the wording of the f-string and the percentage it embeds (printed .1f) *)
reasoning_of(percent_diff) ==
    IF RatLeq(percent_diff, IntRat(-15))
    THEN [wording |-> "below average - exceptional deal!", percent |-> RatAbs(percent_diff)]
    ELSE IF RatLeq(percent_diff, IntRat(-5))
    THEN [wording |-> "below average - good value.", percent |-> RatAbs(percent_diff)]
    ELSE IF RatLeq(percent_diff, IntRat(5))
    THEN [wording |-> "close to market average", percent |-> percent_diff]
    ELSE [wording |-> "above average - not recommended.", percent |-> percent_diff]

(* the difference taken the other way round *)
analyze_one_Reversed(product, avg_price) ==
    LET price_diff   == RatSub(avg_price, IntRat(product.price))
        percent_diff == RatMul(RatDiv(price_diff, avg_price), IntRat(100))
    IN  DealAnalysis(product, is_good_deal_of(percent_diff),
                     reasoning_of(percent_diff), avg_price, price_diff,
                     deal_quality_of(percent_diff))

(* one iteration of the loop over products *)
analyze_one(product, avg_price) ==
    LET price_diff   == RatSub(IntRat(product.price), avg_price)
        percent_diff == RatMul(RatDiv(price_diff, avg_price), IntRat(100))
    IN  DealAnalysis(product, is_good_deal_of(percent_diff),
                     reasoning_of(percent_diff), avg_price, price_diff,
                     deal_quality_of(percent_diff))

(* [raised, value]: raised is "none" or the exception leaving the method *)
analyze_deals(products) ==
    IF products = <<>> THEN [raised |-> "none", value |-> <<>>]
    ELSE LET avg_price == Rat(SumPrices(products), Len(products))
         IN  IF avg_price.num = 0
             THEN [raised |-> "ZeroDivisionError", value |-> <<>>]
             ELSE [raised |-> "none",
                   value  |-> [k \in 1..Len(products) |->
                                  analyze_one(products[k], avg_price)]]

----------------------------------------------------------------------------
(* ReportAgent *)

(* list.sort(key=...) is stable: an element goes after the elements whose   *)
(* key is not greater                                                       *)
(* an insertion that goes before the elements of equal key *)
RECURSIVE InsertByPrice_Unstable(_, _)
InsertByPrice_Unstable(a, sorted) ==
    IF sorted = <<>> THEN <<a>>
    ELSE IF Head(sorted).product.price < a.product.price
         THEN <<Head(sorted)>> \o InsertByPrice_Unstable(a, Tail(sorted))
         ELSE <<a>> \o sorted

RECURSIVE InsertByPrice(_, _)
InsertByPrice(a, sorted) ==
    IF sorted = <<>> THEN <<a>>
    ELSE IF Head(sorted).product.price <= a.product.price
         THEN <<Head(sorted)>> \o InsertByPrice(a, Tail(sorted))
         ELSE <<a>> \o sorted

RECURSIVE SortByPrice(_)
SortByPrice(as) ==
    IF as = <<>> THEN <<>>
    ELSE InsertByPrice(as[Len(as)], SortByPrice(Sub(as, 1, Len(as) - 1)))

IsGoodDeal(a) == a.is_good_deal

(* a summary with defaults when there is no analysis *)
generate_report_Defaulted(as) ==
    LET sorted     == SortByPrice(as)
        good_deals == SelectSeq(sorted, IsGoodDeal)
    IN  [raised |-> "none", list |-> sorted,
         report |-> Report(sorted,
                      <<[count      |-> Len(sorted),
                         good_deals |-> Len(good_deals),
                         best_price |-> IF sorted = <<>> THEN 0
                                        ELSE sorted[1].product.price,
                         best_store |-> IF sorted = <<>> THEN ""
                                        ELSE sorted[1].product.store]>>)]

(* sorted(analyses): the report gets a sorted copy *)
generate_report_Copy(as) ==
    LET sorted     == SortByPrice(as)
        good_deals == SelectSeq(sorted, IsGoodDeal)
    IN  IF sorted = <<>>
        THEN [raised |-> "AttributeError", list |-> as, report |-> NoReport]
        ELSE [raised |-> "none", list |-> as,
              report |-> Report(sorted,
                           <<[count      |-> Len(sorted),
                              good_deals |-> Len(good_deals),
                              best_price |-> sorted[1].product.price,
                              best_store |-> sorted[1].product.store]>>)]

(* [raised, list, report]: list is the caller's list object after the call, *)
(* which the returned Report shares                                         *)
generate_report(as) ==
    LET sorted     == SortByPrice(as)
        good_deals == SelectSeq(sorted, IsGoodDeal)
    IN  IF sorted = <<>>
        THEN [raised |-> "AttributeError", list |-> sorted, report |-> NoReport]
        ELSE [raised |-> "none", list |-> sorted,
              report |-> Report(sorted,
                           <<[count      |-> Len(sorted),
                              good_deals |-> Len(good_deals),
                              best_price |-> sorted[1].product.price,
                              best_store |-> sorted[1].product.store]>>)]

Line(kind, store, price, quality, amount) ==
    [kind |-> kind, store |-> store, price |-> price, quality |-> quality,
     amount |-> amount]

(* the lines display_report prints for a report with at least one analysis *)
display_report(rep) ==
    <<Line("summary", "", 0, "", 0)>>
      \o [k \in 1..Len(rep.analyses) |->
            Line("analysis", rep.analyses[k].product.store,
                 rep.analyses[k].product.price, rep.analyses[k].deal_quality, 0)]
      \o <<Line("recommendation", rep.analyses[1].product.store,
                rep.analyses[1].product.price, "",
                rep.analyses[Len(rep.analyses)].product.price
                  - rep.analyses[1].product.price)>>

(* the content export_to_file builds *)
export_content(rep) ==
    <<Line("summary", "", 0, "", 0)>>
      \o [k \in 1..Len(rep.analyses) |->
            Line("analysis", rep.analyses[k].product.store,
                 rep.analyses[k].product.price, rep.analyses[k].deal_quality, 0)]

----------------------------------------------------------------------------
(* main *)

DefaultWeb ==
    [u \in Urls |-> [status |-> "fetch_error", doc |-> Doc(<<>>, <<>>, <<>>)]]

UrlSeqs == UNION {[1..n -> Urls] : n \in 0..MaxSources}

Init ==
    /\ pc = "input"
    /\ outcome = "running"
    /\ use_mock = FALSE
    /\ urls = <<>>
    /\ web = DefaultWeb
    /\ idx = 1
    /\ all_products = <<>>
    /\ scraped_data = <<>>
    /\ analyses = <<>>
    /\ report = NoReport
    /\ console = <<>>
    /\ calls = <<>>
    /\ file = <<>>

(* use_mock: scraped_data = scraper_agent.get_mock_data(product_name) *)
MockInput ==
    /\ pc = "input"
    /\ \E variance \in [1..Len(MockStores) -> MockVariances] :
          scraped_data' = get_mock_data(TV, variance)
    /\ use_mock' = TRUE
    /\ calls' = Append(calls, "get_mock_data")
    /\ pc' = "check_data"
    /\ UNCHANGED <<outcome, urls, web, idx, all_products, analyses, report,
                   console, file>>

(* the URLs read from input() and what each of them serves during the run; *)
(* then the entry into scrape_multiple_stores                               *)
UrlInput ==
    /\ pc = "input"
    /\ \E us \in UrlSeqs, w \in [Urls -> Responses] :
          /\ urls' = us
          /\ web' = w
    /\ use_mock' = FALSE
    /\ calls' = Append(calls, "scrape_multiple_stores")
    /\ all_products' = <<>>
    /\ idx' = 1
    /\ pc' = "scrape"
    /\ UNCHANGED <<outcome, scraped_data, analyses, report, console, file>>

(* the loop giving up at the first source that yields nothing *)
ScrapeNext_Abort ==
    /\ pc = "scrape"
    /\ idx <= Len(urls)
    /\ LET products == scrape_store(urls[idx], web[urls[idx]])
       IN  /\ all_products' = all_products \o products
           /\ idx' = IF products = <<>> THEN Len(urls) + 1 ELSE idx + 1
    /\ UNCHANGED <<pc, outcome, use_mock, urls, web, scraped_data, analyses,
                   report, console, calls, file>>

(* one iteration of "for url in urls": scrape_store never raises, so the   *)
(* except branch of the loop is not taken                                   *)
ScrapeNext ==
    /\ pc = "scrape"
    /\ idx <= Len(urls)
    /\ all_products' = all_products \o scrape_store(urls[idx], web[urls[idx]])
    /\ idx' = idx + 1
    /\ UNCHANGED <<pc, outcome, use_mock, urls, web, scraped_data, analyses,
                   report, console, calls, file>>

(* return all_products *)
ScrapeReturn ==
    /\ pc = "scrape"
    /\ idx > Len(urls)
    /\ scraped_data' = all_products
    /\ pc' = "check_data"
    /\ UNCHANGED <<outcome, use_mock, urls, web, idx, all_products, analyses,
                   report, console, calls, file>>

(* main without the guard on scraped_data *)
CheckData_NoGuard ==
    /\ pc = "check_data"
    /\ pc' = "analyze"
    /\ UNCHANGED <<outcome, use_mock, urls, web, idx, all_products,
                   scraped_data, analyses, report, console, calls, file>>

(* if not scraped_data: print no data, return *)
CheckData ==
    /\ pc = "check_data"
    /\ IF scraped_data = <<>>
       THEN /\ console' = Append(console, Line("no_data", "", 0, "", 0))
            /\ outcome' = "no_data"
            /\ pc' = "done"
       ELSE /\ pc' = "analyze"
            /\ UNCHANGED <<console, outcome>>
    /\ UNCHANGED <<use_mock, urls, web, idx, all_products, scraped_data,
                   analyses, report, calls, file>>

(* analyses = analyzer_agent.analyze_deals(scraped_data) *)
Analyze ==
    /\ pc = "analyze"
    /\ calls' = Append(calls, "analyze_deals")
    /\ LET r == analyze_deals(scraped_data)
       IN  IF r.raised = "none"
           THEN /\ analyses' = r.value
                /\ pc' = "generate_report"
                /\ UNCHANGED outcome
           ELSE /\ outcome' = r.raised
                /\ pc' = "done"
                /\ UNCHANGED analyses
    /\ UNCHANGED <<use_mock, urls, web, idx, all_products, scraped_data,
                   report, console, file>>

(* report = report_agent.generate_report(analyses); the list is sorted     *)
(* before the summary is built, also when building it raises                *)
GenerateReport ==
    /\ pc = "generate_report"
    /\ calls' = Append(calls, "generate_report")
    /\ LET r == generate_report(analyses)
       IN  /\ analyses' = r.list
           /\ IF r.raised = "none"
              THEN /\ report' = r.report
                   /\ pc' = "display_report"
                   /\ UNCHANGED outcome
              ELSE /\ outcome' = r.raised
                   /\ pc' = "done"
                   /\ UNCHANGED report
    /\ UNCHANGED <<use_mock, urls, web, idx, all_products, scraped_data,
                   console, file>>

(* report_agent.display_report(report) *)
DisplayReport ==
    /\ pc = "display_report"
    /\ calls' = Append(calls, "display_report")
    /\ console' = console \o display_report(report)
    /\ pc' = "ask_export"
    /\ UNCHANGED <<outcome, use_mock, urls, web, idx, all_products,
                   scraped_data, analyses, report, file>>

(* export = input(...) == 'y' *)
AskExport ==
    /\ pc = "ask_export"
    /\ \E export \in BOOLEAN :
          IF export
          THEN /\ pc' = "export"
               /\ UNCHANGED <<console, outcome>>
          ELSE /\ console' = Append(console, Line("complete", "", 0, "", 0))
               /\ outcome' = "complete"
               /\ pc' = "done"
    /\ UNCHANGED <<use_mock, urls, web, idx, all_products, scraped_data,
                   analyses, report, calls, file>>

(* export_to_file catching the write error *)
ExportToFile_Swallowed ==
    /\ pc = "export"
    /\ calls' = Append(calls, "export_to_file")
    /\ \E writable \in BOOLEAN :
          IF writable
          THEN /\ file' = export_content(report)
               /\ console' = console \o <<Line("exported", "", 0, "", 0),
                                         Line("complete", "", 0, "", 0)>>
          ELSE /\ console' = Append(console, Line("complete", "", 0, "", 0))
               /\ UNCHANGED file
    /\ outcome' = "complete"
    /\ pc' = "done"
    /\ UNCHANGED <<use_mock, urls, web, idx, all_products, scraped_data,
                   analyses, report>>

(* report_agent.export_to_file(report), then the closing print; open()     *)
(* raises OSError when the destination cannot be written, and main does    *)
(* not catch it                                                             *)
ExportToFile ==
    /\ pc = "export"
    /\ calls' = Append(calls, "export_to_file")
    /\ \E writable \in BOOLEAN :
          IF writable
          THEN /\ file' = export_content(report)
               /\ console' = console \o <<Line("exported", "", 0, "", 0),
                                         Line("complete", "", 0, "", 0)>>
               /\ outcome' = "complete"
          ELSE /\ outcome' = "OSError"
               /\ UNCHANGED <<file, console>>
    /\ pc' = "done"
    /\ UNCHANGED <<use_mock, urls, web, idx, all_products, scraped_data,
                   analyses, report>>

Next ==
    \/ MockInput
    \/ UrlInput
    \/ ScrapeNext
    \/ ScrapeReturn
    \/ CheckData
    \/ Analyze
    \/ GenerateReport
    \/ DisplayReport
    \/ AskExport
    \/ ExportToFile

Spec == Init /\ [][Next]_vars

----------------------------------------------------------------------------
(* The two agents called directly on a batch:                               *)
(*   generate_report(analyze_deals(products))                               *)

BatchPrices == {0, 8500, 9500, 10500, 11500}

BatchProducts ==
    {ProductData(StoreName(u), TV, p, u) : u \in Urls, p \in BatchPrices}

Batches == UNION {[1..n -> BatchProducts] : n \in 0..MaxBatch}

InitBatch ==
    /\ pc = "analyze"
    /\ outcome = "running"
    /\ use_mock = FALSE
    /\ urls = <<>>
    /\ web = DefaultWeb
    /\ idx = 1
    /\ all_products = <<>>
    /\ scraped_data \in Batches
    /\ analyses = <<>>
    /\ report = NoReport
    /\ console = <<>>
    /\ calls = <<>>
    /\ file = <<>>

NextBatch ==
    \/ Analyze
    \/ GenerateReport

SpecBatch == InitBatch /\ [][NextBatch]_vars

----------------------------------------------------------------------------
(* Helpers of the properties *)

Called(method) == \E k \in 1..Len(calls) : calls[k] = method

Printed(kind) == \E k \in 1..Len(console) : console[k].kind = kind

(* what source k of the run contributes: nothing when its fetch failed *)
Contribution(k) ==
    IF web[urls[k]].status # "ok" THEN <<>>
    ELSE scrape_store(urls[k], web[urls[k]])

RECURSIVE ConcatUpTo(_)
ConcatUpTo(k) == IF k = 0 THEN <<>> ELSE ConcatUpTo(k - 1) \o Contribution(k)

RECURSIVE WithPrice(_, _)
WithPrice(as, v) ==
    IF as = <<>> THEN <<>>
    ELSE IF Head(as).product.price = v
         THEN <<Head(as)>> \o WithPrice(Tail(as), v)
         ELSE WithPrice(Tail(as), v)

PricesOf(as) == {as[k].product.price : k \in 1..Len(as)}

CountIn(seq, x) == Cardinality({k \in 1..Len(seq) : seq[k] = x})

SameElements(s, t) ==
    /\ Len(s) = Len(t)
    /\ \A k \in 1..Len(s) : CountIn(s, s[k]) = CountIn(t, s[k])

Ascending(as) ==
    \A k \in 1..(Len(as) - 1) : as[k].product.price <= as[k + 1].product.price

(* 100 * (price - average) / average compared with bound, for a batch with  *)
(* positive sum: 100 * (n * price - sum) <= bound * sum                     *)
DeltaLeq(products, k, bound) ==
    100 * (Len(products) * products[k].price - SumPrices(products))
        <= bound * SumPrices(products)

AllPositive(products) == \A k \in 1..Len(products) : products[k].price > 0

----------------------------------------------------------------------------
(* C1: at every point of the loop of scrape_multiple_stores the cumulative  *)
(* result is the concatenation, in source order, of what the sources        *)
(* processed so far contribute, a failing source contributing nothing; the  *)
(* value returned is the concatenation over all sources.                    *)
C1_Concatenation ==
    /\ (pc = "scrape" => all_products = ConcatUpTo(idx - 1))
    /\ (~use_mock /\ pc = "check_data" => scraped_data = ConcatUpTo(Len(urls)))

C1_Witness ==
    /\ pc = "check_data"
    /\ Len(urls) = 3
    /\ web[urls[1]].status = "ok" /\ Len(Contribution(1)) >= 1
    /\ web[urls[2]].status # "ok"
    /\ web[urls[3]].status = "ok" /\ Len(Contribution(3)) >= 1
    /\ scraped_data = Contribution(1) \o Contribution(3)

(* C3: every record the extractor returned has a positive price and a       *)
(* non-empty name.                                                          *)
C3_ExtractorValid ==
    \A k \in 1..Len(all_products) :
        all_products[k].price > 0 /\ all_products[k].product_name # <<>>

(* C4: a run whose collected sequence is empty reports no data and ends     *)
(* without calling analyze_deals, generate_report, display_report or        *)
(* export_to_file; generate_report is only called on a non-empty collection *)
C4_NoDataStops ==
    /\ (scraped_data = <<>> /\ pc \notin {"input", "scrape", "check_data"}
          => /\ pc = "done"
             /\ outcome = "no_data"
             /\ console = <<Line("no_data", "", 0, "", 0)>>)
    /\ (scraped_data = <<>>
          => ~(Called("analyze_deals") \/ Called("generate_report")
                 \/ Called("display_report") \/ Called("export_to_file")))
    /\ (Called("generate_report") => scraped_data # <<>>)

C4_Witness ==
    /\ pc = "done"
    /\ outcome = "no_data"
    /\ Len(urls) = 2
    /\ web[urls[1]].status = "fetch_error"
    /\ web[urls[2]].status = "ok"

(* C9: when the export was attempted and nothing was written, the run ends  *)
(* with the error, says neither exported nor complete, and the console      *)
(* holds the whole rendering of the report; export is only ever attempted   *)
(* right after display_report.                                              *)
C9_ExportFailureSurfaced ==
    /\ (pc = "done" /\ Called("export_to_file") /\ file = <<>>
          => /\ outcome = "OSError"
             /\ ~Printed("exported") /\ ~Printed("complete")
             /\ Len(console) = Len(report.analyses) + 2
             /\ console[Len(console)].kind = "recommendation")
    /\ \A k \in 1..Len(calls) :
          calls[k] = "export_to_file" => k > 1 /\ calls[k - 1] = "display_report"

C9_Witness ==
    /\ pc = "done"
    /\ outcome = "OSError"
    /\ Called("export_to_file")
    /\ Printed("recommendation")

(* C10: every non-empty batch the pipeline hands to analyze_deals has a     *)
(* non-zero average, and analyze_deals does not fail on the division.       *)
C10_DivisionSafe ==
    /\ (pc = "analyze" => SumPrices(scraped_data) # 0)
    /\ outcome # "ZeroDivisionError"

----------------------------------------------------------------------------
(* Properties of analyze_deals and generate_report called on a batch *)

DeltaEq(products, k, bound) ==
    100 * (Len(products) * products[k].price - SumPrices(products))
        = bound * SumPrices(products)

FirstCheapest(as) ==
    CHOOSE k \in 1..Len(as) :
        /\ \A j \in 1..Len(as) : as[k].product.price <= as[j].product.price
        /\ \A j \in 1..(k - 1) : as[j].product.price > as[k].product.price

(* C5: for a non-empty input, the analyses of the report are the input      *)
(* reordered ascending by price, equal prices keeping their input order,    *)
(* and the summary names the first input analysis with the minimum price.   *)
C5_StableAscending ==
    [][(pc = "generate_report" /\ analyses # <<>>) =>
          /\ pc' = "display_report"
          /\ SameElements(report'.analyses, analyses)
          /\ Ascending(report'.analyses)
          /\ \A v \in PricesOf(analyses) :
                WithPrice(report'.analyses, v) = WithPrice(analyses, v)
          /\ report'.summary[1].best_price
                = analyses[FirstCheapest(analyses)].product.price
          /\ report'.summary[1].best_store
                = analyses[FirstCheapest(analyses)].product.store]_vars

(* a report built from an input that was not in price order and that holds  *)
(* the minimum price at two stores                                          *)
C5_Witness ==
    /\ pc = "display_report"
    /\ Len(report.analyses) >= 3
    /\ \E i, j \in 1..Len(scraped_data) :
          i < j /\ scraped_data[i].price > scraped_data[j].price
    /\ report.analyses[1].product.price = report.analyses[2].product.price
    /\ report.analyses[1].product.store # report.analyses[2].product.store

(* C6: generate_report on zero analyses ends with an error at the caller    *)
(* and no Report, no summary, is produced.                                  *)
C6_EmptyReportFails ==
    (Called("generate_report") /\ analyses = <<>>) =>
        /\ pc = "done"
        /\ outcome = "AttributeError"
        /\ report = NoReport

C6_Witness ==
    /\ Called("generate_report")
    /\ scraped_data = <<>>
    /\ outcome = "AttributeError"

(* C7: the value analyze_deals returns has one analysis per product, in     *)
(* input order, all with the mean of the batch as average_price and with    *)
(* price_difference = price - average_price; an empty input gives an empty  *)
(* result and no error.                                                     *)
C7_OnePerProduct ==
    /\ pc = "generate_report" =>
          /\ Len(analyses) = Len(scraped_data)
          /\ \A k \in 1..Len(analyses) :
                LET avg  == analyses[k].average_price
                    diff == analyses[k].price_difference
                IN  /\ analyses[k].product = scraped_data[k]
                    /\ avg = analyses[1].average_price
                    /\ avg.num * Len(scraped_data) = SumPrices(scraped_data) * avg.den
                    /\ diff.num * avg.den
                         = (scraped_data[k].price * avg.den - avg.num) * diff.den
    /\ (Called("analyze_deals") /\ scraped_data = <<>>) =>
          /\ outcome # "ZeroDivisionError"
          /\ analyses = <<>>
          /\ (pc = "generate_report" \/ Called("generate_report"))

(* a batch whose mean is not one of its prices *)
C7_Witness ==
    /\ pc = "generate_report"
    /\ Len(analyses) >= 2
    /\ analyses[1].average_price.den > 1
    /\ analyses[1].price_difference.num # 0

----------------------------------------------------------------------------
(* Frame of the stages *)

====
